---- MODULE Spec2Model ----
(***************************************************************************)
(* A model of radio_beam/multiple_beams.py: the Beams collection, its      *)
(* constructor, the guarded meta setter, isfinite, __getitem__ and the     *)
(* FITS bintable adapter.                                                  *)
(*                                                                         *)
(* Python values are tagged records (field k).  Floats are fixed-point     *)
(* integers with Scale units per 1.0, plus NaN.  Dictionaries live in a    *)
(* heap and are referred to by their index, so that two list entries can   *)
(* be the same dictionary.  The numeric buffer of the Quantity base class  *)
(* (the areas) is read by none of the modelled methods (__len__ is         *)
(* overridden) and is not kept; only the exception _to_area can raise is.  *)
(***************************************************************************)
EXTENDS Integers, Sequences, FiniteSets, TLC

\* ---------------------------------------------------------------- bounds
MaxLen == 2
MaxHeap == 3
Scale == 100

\* ------------------------------------------------------------- constants
\* 2 * np.pi and SIGMA_TO_FWHM = sqrt(8 ln 2), in fixed point
TwoPi == (628 * Scale) \div 100
SIGMA_TO_FWHM == (235 * Scale) \div 100

\* ---------------------------------------------------------- Python values
None == [k |-> "None"]
F(v) == [k |-> "num", v |-> v]
NaN == [k |-> "nan", v |-> 0]

Deg == <<"deg">>
Arcsec == <<"arcsec">>
Sr == <<"sr">>
Dimensionless == << >>
AngleUnits == {<<"deg">>, <<"arcsec">>, <<"rad">>}

\* a bare numpy array: it has no attribute `unit`
Arr(v) == [k |-> "ndarray", ndim |-> 1, dtype |-> "float64", value |-> v]
\* an astropy Quantity: values with a unit (a product of base units)
Qty(v, un) == [k |-> "Quantity", ndim |-> 1, value |-> v, unit |-> un]
\* a Python list of references to dictionaries
List(ids) == [k |-> "list", items |-> ids]

EmptyDict == [x \in {} |-> 0]
DictSet(d, key, val) == [x \in (DOMAIN d) \cup {key} |-> IF x = key THEN val ELSE d[x]]

\* len(x): raises TypeError for None and for 0-d arrays
LenRaises(x) == ~(x.k = "list" \/ (x.k \in {"ndarray", "Quantity"} /\ x.ndim = 1))
LenOf(x) == IF x.k = "list" THEN Len(x.items) ELSE Len(x.value)

\* x.unit exists
HasUnit(x) == x.k = "Quantity"

\* u.deg.is_equivalent(un)
is_equivalent(un) == un \in AngleUnits

\* ------------------------------------------------------------- arithmetic
RECURSIVE ISqrtIter(_, _, _)
ISqrtIter(n, lo, hi) ==
  IF lo >= hi THEN lo
  ELSE LET mid == (lo + hi + 1) \div 2
       IN IF mid * mid <= n THEN ISqrtIter(n, mid, hi) ELSE ISqrtIter(n, lo, mid - 1)
ISqrt(n) == ISqrtIter(n, 0, n)

FDivC(x, c) == IF x.k = "num" THEN F((x.v * Scale) \div c) ELSE x
FMulC(x, c) == IF x.k = "num" THEN F((x.v * c) \div Scale) ELSE x
FSqrt(x) == IF x.k = "num" THEN (IF x.v >= 0 THEN F(ISqrt(x.v * Scale)) ELSE NaN) ELSE x

\* un ** 0.5 (sr is rad squared)
SqrtUnit(un) == IF un = Sr THEN <<"rad">> ELSE IF un = Dimensionless THEN Dimensionless ELSE <<"sqrt">> \o un

\* np.sqrt(areas / (2 * np.pi))
np_sqrt_div(areas) ==
  LET r == [areas EXCEPT !.value = [i \in DOMAIN areas.value |-> FSqrt(FDivC(areas.value[i], TwoPi))]]
  IN IF HasUnit(areas) THEN [r EXCEPT !.unit = SqrtUnit(areas.unit)] ELSE r

\* x * unit : a bare array becomes a Quantity, a Quantity gets the product unit
MulUnit(x, un) ==
  IF HasUnit(x) THEN [x EXCEPT !.unit = x.unit \o un]
  ELSE [k |-> "Quantity", ndim |-> x.ndim, value |-> x.value, unit |-> un]

\* x * SIGMA_TO_FWHM
MulSigma(x) == [x EXCEPT !.value = [i \in DOMAIN x.value |-> FMulC(x.value[i], SIGMA_TO_FWHM)]]

\* np.zeros_like(x); np.zeros_like(None) is a 0-d array
zeros_like(x) ==
  IF x = None THEN [k |-> "ndarray", ndim |-> 0, dtype |-> "object", value |-> <<F(0)>>]
  ELSE [x EXCEPT !.value = [i \in DOMAIN x.value |-> F(0)]]

\* _to_area(majors, minors), the Gaussian area major * minor * constant in
\* steradians: the exception it raises, "none" if it returns.  None has no
\* product; a product of two plane angles converts to steradians, others do not
to_area_exc(majors, minors) ==
  IF majors = None \/ minors = None THEN "TypeError"
  ELSE IF is_equivalent(majors.unit) /\ is_equivalent(minors.unit) THEN "none"
  ELSE "UnitConversionError"

\* ------------------------------------------------------------------ state
VARIABLES self, heap, call
vars == <<self, heap, call>>

\* len(self)
BeamsLen(obj) == LenOf(obj.majors)

\* the meta setter: the exception it raises and the object afterwards
MetaSetterBad(obj, value) == [exc |-> "none", obj |-> [x \in (DOMAIN obj) \cup {"_meta"} |-> IF x = "_meta" THEN value ELSE obj[x]]]
meta_setter(obj, value) ==
  IF LenOf(value) = BeamsLen(obj)
  THEN [exc |-> "none", obj |-> [x \in (DOMAIN obj) \cup {"_meta"} |-> IF x = "_meta" THEN value ELSE obj[x]]]
  ELSE [exc |-> "TypeError", obj |-> obj]

\* __new__, "given an area make a round beam": the three arguments after it
from_areas(majors, minors, pas, areas) ==
  IF areas # None
  THEN LET rad == MulUnit(np_sqrt_div(areas), Deg)
       IN [majors |-> MulSigma(rad), minors |-> MulSigma(rad),
           pas |-> MulUnit(zeros_like(areas), Deg)]
  ELSE [majors |-> majors, minors |-> minors, pas |-> pas]

\* the unit test on one argument: kept if equivalent to degrees, else the
\* warning and x * u.deg
NeedsDeg(x) == HasUnit(x) /\ ~is_equivalent(x.unit)
AssumeDeg(x) == IF NeedsDeg(x) THEN MulUnit(x, Deg) ELSE x

\* __new__, "give specified values priority": reading x.unit of a bare array
\* raises AttributeError; pas is compared in length with majors first, and is
\* np.zeros_like(pas) * u.deg when it is None
coerce_units(a) ==
  LET majExc == a.majors # None /\ ~HasUnit(a.majors)
      minExc == a.minors # None /\ ~HasUnit(a.minors)
      pasExc == IF a.pas = None THEN "none"
                ELSE IF LenRaises(a.majors) THEN "TypeError"
                ELSE IF LenOf(a.pas) # LenOf(a.majors) THEN "ValueError"
                ELSE IF ~HasUnit(a.pas) THEN "AttributeError"
                ELSE "none"
      exc == IF majExc \/ minExc THEN "AttributeError" ELSE pasExc
      \* the warnings emitted before the exception, if any, are emitted
      pasW == IF pasExc = "none" /\ NeedsDeg(a.pas) THEN <<"pa">> ELSE << >>
      minW == IF minExc THEN << >> ELSE (IF NeedsDeg(a.minors) THEN <<"minor">> ELSE << >>) \o pasW
      warnings == IF majExc THEN << >> ELSE (IF NeedsDeg(a.majors) THEN <<"major">> ELSE << >>) \o minW
  IN [exc |-> exc, warnings |-> warnings,
      majors |-> AssumeDeg(a.majors),
      minors |-> AssumeDeg(a.minors),
      pas |-> IF a.pas # None THEN AssumeDeg(a.pas) ELSE MulUnit(zeros_like(a.pas), Deg)]

\* __new__, "some sensible defaults", and the call of _to_area
defaults(c) ==
  LET minors == IF c.minors = None THEN c.majors ELSE c.minors
      exc == IF c.exc # "none" THEN c.exc
             ELSE IF c.minors # None /\ LenRaises(c.majors) THEN "TypeError"
             ELSE IF c.minors # None /\ LenOf(c.minors) # LenOf(c.majors) THEN "ValueError"
             ELSE to_area_exc(c.majors, minors)
  IN [c EXCEPT !.exc = exc, !.minors = minors]

\* __new__, the attributes and the metadata: [{}] * len(self) is a list of
\* len(self) references to one new dictionary
attach(d, default_unit, meta, h) ==
  LET obj0 == [majors |-> d.majors, minors |-> d.minors, pas |-> d.pas, default_unit |-> default_unit]
      value == IF meta = None THEN List([i \in 1..BeamsLen(d) |-> Len(h) + 1]) ELSE meta
      set == meta_setter(obj0, value)
  IN IF d.exc # "none" THEN [exc |-> d.exc, warnings |-> d.warnings, obj |-> None, heap |-> h]
     ELSE IF set.exc # "none" THEN [exc |-> set.exc, warnings |-> d.warnings, obj |-> None, heap |-> h]
     ELSE [exc |-> "none", warnings |-> d.warnings, obj |-> set.obj,
           heap |-> IF meta = None THEN Append(h, EmptyDict) ELSE h]

\* Beams.__new__: the exception raised ("none" if the object is returned),
\* the warnings emitted, the object and the heap
Beams_new(majors, minors, pas, areas, default_unit, meta, h) ==
  attach(defaults(coerce_units(from_areas(majors, minors, pas, areas))), default_unit, meta, h)

\* ----------------------------------------------------------------- inputs
SeqsOf(S) == UNION {[1..n -> S] : n \in 1..MaxLen}
MajorInputs == {None} \cup {Arr(v) : v \in SeqsOf({F(0), F(Scale)})}
                      \cup {Qty(v, un) : v \in SeqsOf({F(0), F(Scale)}), un \in {Dimensionless, Deg}}
MinorInputs == {None} \cup {Qty(v, Deg) : v \in SeqsOf({F(Scale \div 2)})}
PaInputs == {None} \cup {Qty(v, Deg) : v \in SeqsOf({F(0), NaN})}
AreaInputs == {None} \cup {Arr(v) : v \in SeqsOf({F(Scale)})} \cup {Qty(v, Sr) : v \in SeqsOf({F(Scale)})}
UnitInputs == {Deg, Arcsec}
\* the number of fresh empty dictionaries of a meta argument; -1 for meta=None
MetaInputs == (0 - 1)..MaxLen

Keys == {"CHAN"}
Vals == {1, 2}
Views == {[k |-> "int", v |-> i] : i \in {0 - 1, 0, MaxLen}}
         \cup {[k |-> "slice", start |-> 0, stop |-> 1]}
         \cup {[k |-> "ndarray", ndim |-> 1, dtype |-> "bool", value |-> m] : m \in SeqsOf(BOOLEAN)}
         \cup {[k |-> "ndarray", ndim |-> 1, dtype |-> "int64", value |-> <<0>>]}
         \cup {[k |-> "str", v |-> "a"], [k |-> "float", v |-> F(Scale)],
               [k |-> "list", items |-> <<0>>], [k |-> "tuple", items |-> <<0>>]}
Rows == [BMAJ : {F(2 * Scale)}, BMIN : {F(Scale)}, BPA : {F(0)}, CHAN : Vals]

\* a list of n fresh empty dictionaries, allocated on heap h
FreshList(h, n) == List([i \in 1..n |-> Len(h) + i])
FreshHeap(h, n) == h \o [i \in 1..n |-> EmptyDict]

Init ==
  /\ self = None
  /\ heap = << >>
  /\ call = [op |-> "start"]

\* ------------------------------------------------- methods of a Beams object
\* instance attribute lookup: the names __new__ and the setter have assigned
HasAttr(obj, name) == name \in DOMAIN obj

FGt0(x) == (x.k = "num" /\ x.v > 0) \/ (x.k = "inf" /\ x.v > 0)
FIsFinite(x) == x.k = "num"
\* element i of an array, a 0-d array broadcasting
At(x, i) == IF x.ndim = 0 THEN x.value[1] ELSE x.value[i]

\* the isfinite property
isfinite(obj) ==
  IF ~HasAttr(obj, "major") \/ ~HasAttr(obj, "minor") \/ ~HasAttr(obj, "pa")
  THEN [exc |-> "AttributeError", ret |-> None]
  ELSE [exc |-> "none",
        ret |-> [k |-> "ndarray", ndim |-> 1, dtype |-> "bool",
                 value |-> [i \in 1..Len(obj.major.value) |->
                              /\ FGt0(At(obj.major, i)) /\ FGt0(At(obj.minor, i))
                              /\ FIsFinite(At(obj.major, i)) /\ FIsFinite(At(obj.minor, i))
                              /\ FIsFinite(At(obj.pa, i))]]]

\* the entries of s at the positions where mask is true, in order
RECURSIVE MaskSeq(_, _)
MaskSeq(s, mask) ==
  IF s = << >> \/ mask = << >> THEN << >>
  ELSE (IF Head(mask) THEN <<Head(s)>> ELSE << >>) \o MaskSeq(Tail(s), Tail(mask))

\* s[view] for an integer (0-based, negative from the end) or a slice
IndexRaises(s, view) == view.k = "int" /\ ~(view.v \in (0 - Len(s))..(Len(s) - 1))
IndexSeq(s, view) ==
  IF view.k = "int" THEN s[(IF view.v < 0 THEN view.v + Len(s) ELSE view.v) + 1]
  ELSE SubSeq(s, view.start + 1, IF view.stop < Len(s) THEN view.stop ELSE Len(s))

\* array[view] for an integer, a slice or a boolean mask
ArrIndexRaises(a, view) ==
  \/ a.ndim = 0
  \/ (view.k = "ndarray" /\ Len(view.value) # Len(a.value))
  \/ (view.k # "ndarray" /\ IndexRaises(a.value, view))
ArrIndex(a, view) ==
  IF view.k = "ndarray" THEN [a EXCEPT !.value = MaskSeq(a.value, view.value)]
  ELSE IF view.k = "int" THEN [a EXCEPT !.ndim = 0, !.value = <<IndexSeq(a.value, view)>>]
  ELSE [a EXCEPT !.value = IndexSeq(a.value, view)]

\* Beam(major=..., minor=..., pa=..., meta=...), the single-beam type
Beam(major, minor, pa, meta) == [k |-> "Beam", major |-> major, minor |-> minor, pa |-> pa, meta |-> meta]

\* Beams.__getitem__
getitem(obj, view) ==
  IF view.k \in {"int", "slice"}
  THEN IF ~HasAttr(obj, "major") \/ ~HasAttr(obj, "minor") \/ ~HasAttr(obj, "pa")
       THEN [exc |-> "AttributeError", ret |-> None]
       ELSE IF ArrIndexRaises(obj.major, view) \/ ArrIndexRaises(obj.minor, view)
               \/ ArrIndexRaises(obj.pa, view) \/ IndexRaises(obj._meta.items, view)
       THEN [exc |-> "IndexError", ret |-> None]
       ELSE [exc |-> "none",
             ret |-> Beam(ArrIndex(obj.major, view), ArrIndex(obj.minor, view), ArrIndex(obj.pa, view),
                          IF view.k = "int" THEN IndexSeq(obj._meta.items, view)
                          ELSE List(IndexSeq(obj._meta.items, view)))]
  ELSE IF view.k = "ndarray"
  THEN IF view.dtype # "bool"
       THEN [exc |-> "ValueError", ret |-> None]
       ELSE IF ~HasAttr(obj, "major") \/ ~HasAttr(obj, "minor") \/ ~HasAttr(obj, "pa")
       THEN [exc |-> "AttributeError", ret |-> None]
       ELSE IF ArrIndexRaises(obj.major, view) \/ ArrIndexRaises(obj.minor, view)
               \/ ArrIndexRaises(obj.pa, view)
       THEN [exc |-> "IndexError", ret |-> None]
       ELSE [exc |-> "none",
             ret |-> Beam(ArrIndex(obj.major, view), ArrIndex(obj.minor, view), ArrIndex(obj.pa, view),
                          List(MaskSeq(obj._meta.items, view.value)))]
  ELSE [exc |-> "none", ret |-> None]

\* ---------------------------------------------------------------- actions
\* Beams(majors, minors, pas, areas, default_unit, meta): the one collection
\* under study is constructed; a meta argument is a list of n fresh empty
\* dictionaries
New ==
  /\ call.op = "start"
  /\ \E majors \in MajorInputs, minors \in MinorInputs, pas \in PaInputs, areas \in AreaInputs,
        default_unit \in UnitInputs, n \in MetaInputs :
       LET metaGiven == n >= 0
           h0 == IF metaGiven THEN FreshHeap(heap, n) ELSE heap
           meta == IF metaGiven THEN FreshList(heap, n) ELSE None
           r == Beams_new(majors, minors, pas, areas, default_unit, meta, h0)
       IN /\ call' = [op |-> "new", majors |-> majors, minors |-> minors, pas |-> pas,
                      areas |-> areas, default_unit |-> default_unit, meta |-> meta,
                      exc |-> r.exc, warnings |-> r.warnings]
          /\ self' = r.obj
          /\ heap' = r.heap

\* collection.meta = value, value a list of n fresh empty dictionaries
SetMeta(n) ==
  /\ self # None
  /\ Len(heap) + n <= MaxHeap
  /\ LET value == FreshList(heap, n)
         r == meta_setter(self, value)
     IN /\ call' = [op |-> "set_meta", value |-> value, exc |-> r.exc]
        /\ self' = r.obj
        /\ heap' = IF r.exc = "none" THEN FreshHeap(heap, n) ELSE heap

\* collection.meta[i][key] = val (i counted from 1): the getter, then a
\* store into the dictionary the entry refers to
MetaItemSet(i, key, val) ==
  /\ self # None
  /\ i \in 1..Len(self._meta.items)
  /\ call' = [op |-> "meta_item_set", i |-> i, key |-> key, val |-> val, exc |-> "none"]
  /\ heap' = [heap EXCEPT ![self._meta.items[i]] = DictSet(@, key, val)]
  /\ UNCHANGED self

IsFinite ==
  /\ self # None
  /\ LET r == isfinite(self)
     IN call' = [op |-> "isfinite", exc |-> r.exc, ret |-> r.ret]
  /\ UNCHANGED <<self, heap>>

GetItem(view) ==
  /\ self # None
  /\ LET r == getitem(self, view)
     IN call' = [op |-> "getitem", view |-> view, exc |-> r.exc, ret |-> r.ret]
  /\ UNCHANGED <<self, heap>>

\* Beams.from_fits_bintable: one row per beam, the columns BMAJ, BMIN, BPA
\* and the extra column CHAN
FromFitsBintable ==
  /\ call.op = "start"
  /\ \E rows \in SeqsOf(Rows) :
       LET n == Len(rows)
           majors == Qty([i \in 1..n |-> rows[i].BMAJ], Arcsec)
           minors == Qty([i \in 1..n |-> rows[i].BMIN], Arcsec)
           pas == Qty([i \in 1..n |-> rows[i].BPA], Arcsec)
           meta == FreshList(heap, n)
           h0 == heap \o [i \in 1..n |-> [key \in {"CHAN"} |-> rows[i].CHAN]]
           r == Beams_new(majors, minors, pas, None, Arcsec, meta, h0)
       IN /\ call' = [op |-> "from_fits_bintable", rows |-> rows, exc |-> r.exc, warnings |-> r.warnings]
          /\ self' = r.obj
          /\ heap' = r.heap

Next ==
  \/ New
  \/ FromFitsBintable
  \/ \E n \in 1..MaxLen : SetMeta(n)
  \/ \E i \in 1..MaxLen, key \in Keys, val \in Vals : MetaItemSet(i, key, val)
  \/ IsFinite
  \/ \E view \in Views : GetItem(view)

Spec == Init /\ [][Next]_vars

\* ----------------------------------------------------------------- claims
\* the dictionary entry j of the collection's metadata refers to
MetaDict(obj, h, j) == h[obj._meta.items[j]]
\* a Quantity given with a plane-angle unit
IsAngle(x) == x # None /\ HasUnit(x) /\ is_equivalent(x.unit)

\* C1: every collection the constructor returns, also after any meta-setter
\* calls, has len(majors) = len(minors) = len(pas) = len(meta) = len(collection).
C1_LengthInvariant ==
  self # None =>
    /\ ~LenRaises(self.majors) /\ ~LenRaises(self.minors) /\ ~LenRaises(self.pas)
    /\ LenOf(self.minors) = LenOf(self.majors)
    /\ LenOf(self.pas) = LenOf(self.majors)
    /\ LenOf(self._meta) = LenOf(self.majors)
    /\ BeamsLen(self) = LenOf(self.majors)

\* C2: assigning to meta a sequence whose length differs from the collection's
\* raises an error and the stored metadata stays what it was; assigning a
\* sequence of the collection's length makes it the stored metadata.
C2_SetterGuard ==
  [][call'.op = "set_meta" =>
       IF LenOf(call'.value) # BeamsLen(self)
       THEN /\ call'.exc = "TypeError"
            /\ self'._meta = self._meta
            /\ \A j \in 1..LenOf(self._meta) : MetaDict(self', heap', j) = MetaDict(self, heap, j)
       ELSE /\ call'.exc = "none"
            /\ self'._meta = call'.value]_vars

\* a rejected assignment on a collection whose stored metadata has content
C2_Witness ==
  /\ call.op = "set_meta" /\ call.exc = "TypeError"
  /\ self # None
  /\ \E j \in 1..LenOf(self._meta) : MetaDict(self, heap, j) # EmptyDict

\* C3: given both explicit majors (and optionally minors) and areas, the
\* resulting majors and minors are the explicit values, not the values
\* derived from the areas.
C3_ExplicitPriority ==
  (call.op = "new" /\ call.exc = "none" /\ call.majors # None /\ call.areas # None) =>
    /\ self.majors.value = call.majors.value
    /\ (call.minors # None => self.minors.value = call.minors.value)

\* C4: constructing from majors alone (an angle-unit sequence of length N; no
\* minors, pas, areas or meta) succeeds, with minors equal to majors and pas
\* a sequence of N zeros.
C4_CircularDefault ==
  (call.op = "new" /\ IsAngle(call.majors) /\ call.minors = None /\ call.pas = None
     /\ call.areas = None /\ call.meta = None) =>
    /\ call.exc = "none"
    /\ self.minors = self.majors
    /\ ~LenRaises(self.pas)
    /\ self.pas.value = [i \in 1..LenOf(call.majors) |-> F(0)]

\* C5: a pas or minors sequence whose length differs from that of the majors
\* sequence makes the constructor fail with the length-mismatch error, and no
\* object is returned.
C5_LengthMismatchFails ==
  (/\ call.op = "new" /\ IsAngle(call.majors)
   /\ \/ (call.pas # None /\ LenOf(call.pas) # LenOf(call.majors))
      \/ (call.minors # None /\ LenOf(call.minors) # LenOf(call.majors))) =>
    /\ call.exc = "ValueError"
    /\ self = None

\* C6: indexing with a value that is neither an integer, a slice nor an array
\* fails with a type error and returns nothing.
C6_OtherIndexTypeError ==
  (call.op = "getitem" /\ call.view.k \notin {"int", "slice", "ndarray"}) =>
    call.exc = "TypeError"

\* C7: indexing a collection of length N with a boolean mask of length N
\* returns a beam whose major, minor, pa and meta are the entries of majors,
\* minors, pas and meta where the mask is true, in the original order.
C7_BooleanMask ==
  (/\ call.op = "getitem" /\ call.view.k = "ndarray" /\ call.view.dtype = "bool"
   /\ Len(call.view.value) = BeamsLen(self)) =>
    /\ call.exc = "none"
    /\ call.ret.k = "Beam"
    /\ call.ret.major.value = MaskSeq(self.majors.value, call.view.value)
    /\ call.ret.minor.value = MaskSeq(self.minors.value, call.view.value)
    /\ call.ret.pa.value = MaskSeq(self.pas.value, call.view.value)
    /\ call.ret.meta = List(MaskSeq(self._meta.items, call.view.value))

\* C8: majors given as bare numbers (no unit) do not make the constructor
\* raise: it warns and stores the same numbers with the unit default_unit.
C8_BareMajorsDefaultUnit ==
  (/\ call.op = "new" /\ call.majors # None /\ ~HasUnit(call.majors)
   /\ call.minors = None /\ call.pas = None /\ call.areas = None /\ call.meta = None) =>
    /\ call.exc = "none"
    /\ call.warnings # << >>
    /\ self.majors = Qty(call.majors.value, call.default_unit)

\* C9: isfinite returns a boolean sequence of length N whose entry i is true
\* exactly when majors[i] > 0, minors[i] > 0 and majors[i], minors[i], pas[i]
\* are all finite.
C9_IsFinite ==
  call.op = "isfinite" =>
    /\ call.exc = "none"
    /\ call.ret.k = "ndarray" /\ call.ret.dtype = "bool"
    /\ Len(call.ret.value) = BeamsLen(self)
    /\ \A i \in 1..BeamsLen(self) :
         call.ret.value[i] <=> /\ FGt0(At(self.majors, i)) /\ FGt0(At(self.minors, i))
                               /\ FIsFinite(At(self.majors, i)) /\ FIsFinite(At(self.minors, i))
                               /\ FIsFinite(At(self.pas, i))

\* C10: after construction without meta, storing a key in the mapping of beam i
\* leaves the mapping of every other beam as it was.
C10_IndependentDefaults ==
  [][(/\ call.op = "new" /\ call.exc = "none" /\ call.meta = None
      /\ call'.op = "meta_item_set") =>
       \A j \in 1..BeamsLen(self) :
         j # call'.i => MetaDict(self', heap', j) = MetaDict(self, heap, j)]_vars
====
